---- MODULE Spec2Model ----
(***************************************************************************)
(* Model of src/trx-ft8/src/ft8_wrapper.c: the process-wide callsign hash  *)
(* table (hashtable_init / hashtable_cleanup / hashtable_add /             *)
(* hashtable_lookup), the per-call dedup table of ft8_decoder_decode and   *)
(* the decoder session wrapper (ft8_decoder_create .. ft8_decoder_decode). *)
(*                                                                         *)
(* A callsign is a TLA+ string; "" is the C string whose first byte is     *)
(* '\0'.  The 32-bit hash word of an entry is a natural number below 2^32. *)
(* An array is written as the function from the indices of its non-zero    *)
(* elements to those elements: At reads an element, Put writes one.        *)
(***************************************************************************)
EXTENDS Integers, Sequences, FiniteSets, TLC

VARIABLES
    callsign_hashtable,       \* static callsign_hashtable[CALLSIGN_HASHTABLE_SIZE]
    callsign_hashtable_size,  \* static int callsign_hashtable_size
    pc,                       \* where the calling thread is: "idle" between calls, or
                              \* the function whose loop it can no longer leave
    max_age,                  \* the threshold the caller passes to hashtable_cleanup
    idle,                     \* history: per slot, cleanup calls since it was last saved
    lookup_out,               \* what the last hashtable_lookup returned and wrote to its buffer
    sessions,                 \* the ft8_decoder_t objects: allocated or not, blocks accumulated
    dec,                      \* ft8_decoder_decode: the session it was called on
    max_results,              \* ft8_decoder_decode: its max_results argument
    num_candidates,           \* ft8_decoder_decode: what ftx_find_candidates returned
    idx,                      \* ft8_decoder_decode: the loop index
    num_decoded,              \* ft8_decoder_decode: results written so far
    decoded_hashtable,        \* ft8_decoder_decode: the dedup table (messages by slot)
    out,                      \* the caller's result buffer, by index
    ret,                      \* what the last ft8_decoder_decode call returned
    verdicts,                 \* history: per candidate of this call, what became of it
    touched,                  \* history: callsign slots saved during this call
    owner                     \* history: per callsign slot, the session whose decode saved it

(***************************************************************************)
(* Program constants                                                       *)
(***************************************************************************)
CALLSIGN_HASHTABLE_SIZE == 256

CallsignCapacity == 11

IdentModulus == 4194304

AgeUnit == 16777216

ByteModulus == 256

kCleanupMaxAge == 10

kDedupSize == 200

kMaxCandidates == 200

FTX_MAX_MESSAGE_LENGTH == 35

(***************************************************************************)
(* Bounds of the model                                                     *)
(***************************************************************************)
MaxAgeArg == 2

MaxLive == 3

MaxBlocks == 1

MaxCandidates == 3

MaxResults == 3

MaxSessionCandidates == 1

MaxRounds == 2

Slots == 0 .. (CALLSIGN_HASHTABLE_SIZE - 1)

(***************************************************************************)
(* Entry helpers: the bit fields of callsign_hashtable_entry_t.hash        *)
(***************************************************************************)
\* hash & 0x3FFFFFu
Ident(hash) == hash % IdentModulus

\* (uint8_t)(hash >> 24)
Age(hash) == (hash \div AgeUnit) % ByteModulus

\* callsign[0] != '\0'
Occupied(e) == e.callsign # ""

\* strncpy(dst, callsign, 11); dst[11] = '\0'
Truncate(callsign) ==
    IF Len(callsign) > CallsignCapacity
    THEN SubSeq(callsign, 1, CallsignCapacity)
    ELSE callsign

ZeroEntry == [hash |-> 0, callsign |-> ""]

\* callsign_hashtable[i]
At(t, i) == IF i \in DOMAIN t THEN t[i] ELSE ZeroEntry

\* the array t with element i set to e
Put(t, i, e) ==
    IF e = ZeroEntry
    THEN [j \in (DOMAIN t) \ {i} |-> t[j]]
    ELSE (i :> e) @@ t

\* A probe loop `while (stay at idx) idx = (idx + 1) % size` that starts at
\* `start`, stays being the slots at which it goes on: the number of steps
\* after which it leaves, or -1 when it goes on at every slot (the loops do
\* not write, so what they have seen once they see again for ever).
probe_steps(start, size, stays) ==
    IF \A i \in 0 .. (size - 1) : i \in stays
    THEN -1
    ELSE CHOOSE k \in 0 .. (size - 1) :
             /\ (start + k) % size \notin stays
             /\ \A j \in 0 .. (k - 1) : (start + j) % size \in stays

\* memset(callsign_hashtable, 0, sizeof(callsign_hashtable)): no element is
\* non-zero
ZeroTable == << >>

\* history counters, one per slot, written without the zero counters
Count(c, i) == IF i \in DOMAIN c THEN c[i] ELSE 0

\* the counters c with those of the slots S set to 0
ResetCount(c, S) == [i \in (DOMAIN c) \ S |-> c[i]]

\* the counters c after a cleanup call that left the table t: one more for
\* every slot still occupied, 0 for the others
BumpCount(c, t) == [i \in {j \in DOMAIN t : t[j].callsign # ""} |-> Count(c, i) + 1]

(***************************************************************************)
(* hashtable_cleanup: the body of the for loop, for one slot               *)
(***************************************************************************)
\* a variant of cleanup_entry that leaves an entry of age 0 (saved since the last
\* call) as it is and ages only the others.
cleanup_entry_skip_fresh(e, m) ==
    IF Occupied(e) /\ Age(e.hash) > 0
    THEN IF Age(e.hash) >= m
         THEN [hash |-> 0, callsign |-> ""]
         ELSE [e EXCEPT !.hash = ((Age(e.hash) + 1) * AgeUnit) + Ident(e.hash)]
    ELSE e

\* a variant of cleanup_entry that evicts one call early (age + 1 >= max_age).
cleanup_entry_early(e, m) ==
    IF Occupied(e)
    THEN IF Age(e.hash) + 1 >= m
         THEN [hash |-> 0, callsign |-> ""]
         ELSE [e EXCEPT !.hash = ((Age(e.hash) + 1) * AgeUnit) + Ident(e.hash)]
    ELSE e

\* a variant of cleanup_entry that ages and never evicts
cleanup_entry_no_evict(e, m) ==
    IF Occupied(e)
    THEN [e EXCEPT !.hash = (((Age(e.hash) + 1) % ByteModulus) * AgeUnit) + Ident(e.hash)]
    ELSE e

cleanup_entry(e, m) ==
    IF Occupied(e)
    THEN IF Age(e.hash) >= m
         THEN [hash |-> 0, callsign |-> ""]
         ELSE [e EXCEPT !.hash = ((Age(e.hash) + 1) * AgeUnit) + Ident(e.hash)]
    ELSE e

\* a variant of Evicted for a loop that does not count what it clears
Evicted_none(t, m) == {}

\* the slots the loop clears
Evicted(t, m) ==
    {i \in DOMAIN t : Occupied(t[i]) /\ ~Occupied(cleanup_entry(t[i], m))}

\* the for loop over all slots; it leaves the zero elements as they are
hashtable_cleanup(t, m) ==
    [i \in {j \in DOMAIN t : cleanup_entry(t[j], m) # ZeroEntry}
        |-> cleanup_entry(t[i], m)]

(***************************************************************************)
(* hashtable_add: the probe loop and the insert                            *)
(***************************************************************************)
\* the exit conditions of the while loop of hashtable_add at slot i
add_empty(t, i) == ~Occupied(At(t, i))

add_match(t, callsign, hash, i) ==
    /\ Occupied(At(t, i))
    /\ Ident(t[i].hash) = hash
    /\ t[i].callsign = callsign

\* where the while loop of hashtable_add leaves, if it does
add_find(t, callsign, hash) ==
    LET start == hash % CALLSIGN_HASHTABLE_SIZE
        stays == {i \in DOMAIN t :
                     ~(add_empty(t, i) \/ add_match(t, callsign, hash, i))}
        k == probe_steps(start, CALLSIGN_HASHTABLE_SIZE, stays)
        idx_hash == (start + k) % CALLSIGN_HASHTABLE_SIZE
    IN  IF k = -1 THEN [kind |-> "spin", idx |-> start]
        ELSE IF add_empty(t, idx_hash) THEN [kind |-> "empty", idx |-> idx_hash]
        ELSE [kind |-> "match", idx |-> idx_hash]

\* the table after hashtable_add(callsign, hash) returns
hashtable_add(t, callsign, hash) ==
    LET p == add_find(t, callsign, hash) IN
    CASE p.kind = "match" ->
           Put(t, p.idx, [t[p.idx] EXCEPT !.hash = Ident(t[p.idx].hash)])
      [] p.kind = "empty" ->
           Put(t, p.idx, [hash |-> hash, callsign |-> Truncate(callsign)])
      [] OTHER -> t

\* a variant of add_size that counts every call
add_size_always(t, size, callsign, hash) == size + 1

\* the live count after hashtable_add(callsign, hash) returns
add_size(t, size, callsign, hash) ==
    IF add_find(t, callsign, hash).kind = "empty" THEN size + 1 ELSE size

(***************************************************************************)
(* hashtable_lookup                                                        *)
(***************************************************************************)
HashTypes == {"FTX_CALLSIGN_HASH_22", "FTX_CALLSIGN_HASH_12", "FTX_CALLSIGN_HASH_10"}

\* 1 << hash_shift
ShiftDiv(hash_type) ==
    IF hash_type = "FTX_CALLSIGN_HASH_22" THEN 1
    ELSE IF hash_type = "FTX_CALLSIGN_HASH_12" THEN 1024 ELSE 4096

\* mask + 1
MaskMod(hash_type) ==
    IF hash_type = "FTX_CALLSIGN_HASH_22" THEN 4194304
    ELSE IF hash_type = "FTX_CALLSIGN_HASH_12" THEN 4096 ELSE 1024

\* the test of the if in the while loop of hashtable_lookup at slot i
lookup_match(t, hash_type, hash, i) ==
    /\ Occupied(At(t, i))
    /\ Ident(t[i].hash) \div ShiftDiv(hash_type) = hash % MaskMod(hash_type)

hashtable_lookup(t, hash_type, hash) ==
    LET start == hash % CALLSIGN_HASHTABLE_SIZE
        stays == {i \in DOMAIN t :
                     ~(~Occupied(At(t, i)) \/ lookup_match(t, hash_type, hash, i))}
        k == probe_steps(start, CALLSIGN_HASHTABLE_SIZE, stays)
        idx_hash == (start + k) % CALLSIGN_HASHTABLE_SIZE
    IN  IF k = -1
        THEN [kind |-> "spin", found |-> FALSE, callsign |-> "", idx |-> start]
        ELSE IF ~Occupied(At(t, idx_hash))
        THEN [kind |-> "return", found |-> FALSE, callsign |-> "", idx |-> idx_hash]
        ELSE [kind |-> "return", found |-> TRUE, callsign |-> t[idx_hash].callsign,
              idx |-> idx_hash]

(***************************************************************************)
(* Inputs of the callsign-table specification                              *)
(***************************************************************************)
\* (callsign, 22-bit hash) pairs handed to hashtable_add.  5 and 5125 share
\* the start slot 5 (5125 = 20 * 256 + 5 = 5 * 1024 + 5); "" is the empty
\* string.
SavePairs == { <<"K1ABC", 5>>, <<"W2XYZ", 5125>>, <<"", 6>> }

\* hash values handed to hashtable_lookup
LookupHashes == {0, 5, 5125}

MaxAges == 1 .. MaxAgeArg

NoLookup == [ret |-> "none", callsign |-> ""]

\* the decoder sessions of the model
Sessions == {"A", "B"}

\* a session that is not allocated
NoSession == [live |-> FALSE, num_blocks |-> 0]

\* no ft8_decoder_t exists and no ft8_decoder_decode call has been made
NoDecoder ==
    /\ sessions = [s \in Sessions |-> NoSession]
    /\ dec = "NULL"
    /\ max_results = 0
    /\ num_candidates = 0
    /\ idx = 0
    /\ num_decoded = 0
    /\ decoded_hashtable = <<>>
    /\ out = <<>>
    /\ ret = -1
    /\ verdicts = <<>>
    /\ touched = {}
    /\ owner = <<>>

cacheVars == <<callsign_hashtable, callsign_hashtable_size, idle>>

\* the locals of ft8_decoder_decode and the history of the call
callVars == <<dec, max_results, num_candidates, idx, num_decoded, decoded_hashtable,
              out, ret, verdicts, touched>>

decodeVars == <<sessions, callVars, owner>>

vars == <<callsign_hashtable, callsign_hashtable_size, pc, max_age, idle, lookup_out,
          sessions, dec, max_results, num_candidates, idx, num_decoded,
          decoded_hashtable, out, ret, verdicts, touched, owner>>

(***************************************************************************)
(* Actions of the callsign table                                           *)
(***************************************************************************)
\* hashtable_init()
HashtableInit ==
    /\ pc = "idle"
    /\ callsign_hashtable' = ZeroTable
    /\ callsign_hashtable_size' = 0
    /\ idle' = <<>>
    /\ UNCHANGED <<pc, max_age, lookup_out, decodeVars>>

\* hashtable_add(callsign, hash), to its return or to the point where the
\* probe loop can no longer leave
HashtableAdd(callsign, hash) ==
    \E p \in {add_find(callsign_hashtable, callsign, hash)} :
    /\ pc = "idle"
    /\ callsign_hashtable' = hashtable_add(callsign_hashtable, callsign, hash)
    /\ callsign_hashtable_size' =
           add_size(callsign_hashtable, callsign_hashtable_size, callsign, hash)
    /\ idle' = IF p.kind = "spin" THEN idle ELSE ResetCount(idle, {p.idx})
    /\ pc' = IF p.kind = "spin" THEN "hashtable_add" ELSE "idle"
    /\ UNCHANGED <<max_age, lookup_out, decodeVars>>

\* hashtable_cleanup(max_age)
HashtableCleanup ==
    /\ pc = "idle"
    /\ callsign_hashtable' = hashtable_cleanup(callsign_hashtable, max_age)
    /\ callsign_hashtable_size' =
           callsign_hashtable_size - Cardinality(Evicted(callsign_hashtable, max_age))
    /\ idle' = BumpCount(idle, callsign_hashtable')
    /\ UNCHANGED <<pc, max_age, lookup_out, decodeVars>>

\* hashtable_lookup(hash_type, hash, callsign)
HashtableLookup(hash_type, hash) ==
    \E r \in {hashtable_lookup(callsign_hashtable, hash_type, hash)} :
    /\ pc = "idle"
    /\ pc' = IF r.kind = "spin" THEN "hashtable_lookup" ELSE "idle"
    /\ lookup_out' = IF r.kind = "spin" THEN lookup_out
                     ELSE [ret |-> IF r.found THEN "true" ELSE "false",
                           callsign |-> r.callsign]
    /\ UNCHANGED <<cacheVars, max_age, decodeVars>>

(***************************************************************************)
(* Spec: every sequence of init, save, lookup and age_and_evict calls on   *)
(* the callsign table, the threshold being fixed for the run               *)
(***************************************************************************)
Init ==
    /\ callsign_hashtable = ZeroTable
    /\ callsign_hashtable_size = 0
    /\ pc = "idle"
    /\ max_age \in MaxAges
    /\ idle = <<>>
    /\ lookup_out = NoLookup
    /\ NoDecoder

\* the saves the bound MaxLive admits: those that do not take the live count
\* beyond it
SaveBounded(callsign, hash) ==
    add_find(callsign_hashtable, callsign, hash).kind = "empty"
        => callsign_hashtable_size < MaxLive

Next ==
    \/ HashtableInit
    \/ \E s \in SavePairs : SaveBounded(s[1], s[2]) /\ HashtableAdd(s[1], s[2])
    \/ HashtableCleanup
    \/ \E hash_type \in HashTypes, hash \in LookupHashes : HashtableLookup(hash_type, hash)

Spec == Init /\ [][Next]_vars

(***************************************************************************)
(* SpecSave: saves, among them one of a text longer than the 11 characters *)
(* an entry holds, and a few age_and_evict(10) calls, none of which evicts *)
(***************************************************************************)
\* "PJ4/K1ABC/QRP" has 13 characters; 261 = 256 + 5 shares the start slot
\* of K1ABC and W2XYZ
SaveInputs == SavePairs \cup { <<"PJ4/K1ABC/QRP", 261>> }

InitSave ==
    /\ callsign_hashtable = ZeroTable
    /\ callsign_hashtable_size = 0
    /\ pc = "idle"
    /\ max_age = kCleanupMaxAge
    /\ idle = <<>>
    /\ lookup_out = NoLookup
    /\ NoDecoder

\* the cleanup calls the bound MaxRounds admits
CleanupBounded ==
    \A i \in DOMAIN callsign_hashtable :
        Occupied(callsign_hashtable[i]) => Age(callsign_hashtable[i].hash) < MaxRounds

NextSave ==
    \/ \E s \in SaveInputs : SaveBounded(s[1], s[2]) /\ HashtableAdd(s[1], s[2])
    \/ CleanupBounded /\ HashtableCleanup

SpecSave == InitSave /\ [][NextSave]_vars

(***************************************************************************)
(* SpecFull: a burst of distinct callsigns that fills the table, with no   *)
(* age_and_evict call in between (as within one decode call), followed by  *)
(* saves and lookups on the full table                                     *)
(***************************************************************************)
Digits == <<"0", "1", "2", "3", "4", "5", "6", "7", "8", "9">>

\* the n-th callsign of the burst: "Q000", "Q001", ...
FillCallsign(n) ==
    "Q" \o Digits[(n \div 100) + 1] \o Digits[((n \div 10) % 10) + 1] \o Digits[(n % 10) + 1]

\* its 22-bit hash; callsigns 2k and 2k + 1 share the start slot 2k
FillHash(n) == 4096 + (2 * (n \div 2))

\* hashes handed to hashtable_lookup: the first callsign's, and one no
\* callsign of the burst has
FullLookupHashes == {FillHash(0), 9}

InitFull ==
    /\ callsign_hashtable = ZeroTable
    /\ callsign_hashtable_size = 0
    /\ pc = "idle"
    /\ max_age = kCleanupMaxAge
    /\ idle = <<>>
    /\ lookup_out = NoLookup
    /\ NoDecoder

\* the next callsign of the burst, while a slot is free
FillSave ==
    /\ callsign_hashtable_size < CALLSIGN_HASHTABLE_SIZE
    /\ HashtableAdd(FillCallsign(callsign_hashtable_size), FillHash(callsign_hashtable_size))

\* a callsign of the burst is heard again
FillResave ==
    /\ callsign_hashtable_size > 0
    /\ HashtableAdd(FillCallsign(callsign_hashtable_size - 1),
                    FillHash(callsign_hashtable_size - 1))

\* one more distinct callsign once the table is full
FillOverflow ==
    /\ callsign_hashtable_size = CALLSIGN_HASHTABLE_SIZE
    /\ HashtableAdd(FillCallsign(CALLSIGN_HASHTABLE_SIZE), FillHash(CALLSIGN_HASHTABLE_SIZE))

FillLookup ==
    \E hash \in FullLookupHashes : HashtableLookup("FTX_CALLSIGN_HASH_22", hash)

NextFull == FillSave \/ FillResave \/ FillOverflow \/ FillLookup

SpecFull == InitFull /\ [][NextFull]_vars

(***************************************************************************)
(* ft8_decoder_decode: the dedup table and the unpack step                 *)
(***************************************************************************)
DedupSlots == 0 .. (kDedupSize - 1)

\* a variant of dedup_empty that takes every slot for a free one
dedup_empty_always(d, i) == i \in DedupSlots

\* decoded_hashtable[i] == NULL
dedup_empty(d, i) == i \notin DOMAIN d

\* a variant of dedup_duplicate that does not compare the payload bytes
dedup_duplicate_hash_only(d, message, i) ==
    /\ i \in DOMAIN d
    /\ d[i].hash = message.hash

\* a variant of dedup_duplicate that takes no slot for a duplicate
dedup_duplicate_never(d, message, i) == FALSE

\* the else-if of the do/while: same hash and same payload bytes
dedup_duplicate(d, message, i) ==
    /\ i \in DOMAIN d
    /\ d[i].hash = message.hash
    /\ d[i].payload = message.payload

\* where the do/while of the dedup step leaves: the slot, or -1 when it
\* cannot leave
dedup_find(d, message) ==
    LET start == message.hash % kDedupSize
        stays == {i \in DOMAIN d :
                     ~(dedup_empty(d, i) \/ dedup_duplicate(d, message, i))}
        k == probe_steps(start, kDedupSize, stays)
    IN  IF k = -1 THEN -1 ELSE (start + k) % kDedupSize

\* strncpy(dst->text, text, sizeof(dst->text) - 1) and the terminator
CopyText(text) ==
    IF Len(text) > FTX_MAX_MESSAGE_LENGTH - 1
    THEN SubSeq(text, 1, FTX_MAX_MESSAGE_LENGTH - 1)
    ELSE text

\* a variant of ErrorText that leaves the code out
ErrorText_no_code(rc) == "Error while unpacking!"

\* snprintf(text, sizeof(text), "Error [%d] while unpacking!", (int)unpack_status)
ErrorText(rc) == "Error [" \o ToString(rc) \o "] while unpacking!"

\* what the unpack library writes for a callsign field given as a hash, r
\* being what lookup_hash returned: the callsign in angle brackets, or
\* "<...>" when it is not known
hashed_callsign_text(r) ==
    " <" \o (IF r.found THEN r.callsign ELSE "...") \o ">"

\* ftx_message_decode with the callbacks of hash_if: the library renders
\* the payload to c.text and, for each callsign field, calls save_hash or
\* lookup_hash through hash_if.  st is the state of the call: the callsign
\* table and live count, whether a callback is still running ("return" when
\* not), the text, the last lookup and the slots saved.
RECURSIVE unpack_calls(_, _)
unpack_calls(calls, st) ==
    IF calls = <<>> \/ st.kind # "return" THEN st
    ELSE LET call == Head(calls) IN
         IF call.op = "save"
         THEN LET p == add_find(st.t, call.callsign, call.hash) IN
              unpack_calls(Tail(calls),
                  IF p.kind = "spin"
                  THEN [st EXCEPT !.kind = "hashtable_add"]
                  ELSE [st EXCEPT
                          !.t = hashtable_add(st.t, call.callsign, call.hash),
                          !.size = add_size(st.t, st.size, call.callsign, call.hash),
                          !.touched = st.touched \cup {p.idx}])
         ELSE LET r == hashtable_lookup(st.t, call.hash_type, call.hash) IN
              unpack_calls(Tail(calls),
                  IF r.kind = "spin"
                  THEN [st EXCEPT !.kind = "hashtable_lookup"]
                  ELSE [st EXCEPT
                          !.text = st.text \o hashed_callsign_text(r),
                          !.lookup = [ret |-> IF r.found THEN "true" ELSE "false",
                                      callsign |-> r.callsign]])

\* the ft8_decode_result_t written for a candidate: the text (the unpacked
\* text, or the error text when unpack_status is not FTX_MESSAGE_RC_OK) and
\* snr_db = score * 0.5 in tenths of a dB; dt_s and freq_hz are arithmetic
\* on the candidate's coordinates and are left out
decode_result(c, text) ==
    [text |-> CopyText(IF c.rc # 0 THEN ErrorText(c.rc) ELSE text),
     snr_db_x10 |-> c.score * 5]

\* the entry of `verdicts` for one candidate
Verdict(c, what, slot) ==
    [hash |-> c.hash, payload |-> c.payload, verdict |-> what, slot |-> slot]

(***************************************************************************)
(* Actions of the decoder wrapper                                          *)
(***************************************************************************)
\* ft8_decoder_create: calloc, the configuration, hashtable_init, monitor_init
Create(s) ==
    /\ pc = "idle"
    /\ ~sessions[s].live
    /\ sessions' = [sessions EXCEPT ![s] = [live |-> TRUE, num_blocks |-> 0]]
    /\ callsign_hashtable' = ZeroTable
    /\ callsign_hashtable_size' = 0
    /\ idle' = <<>>
    /\ owner' = <<>>
    /\ UNCHANGED <<pc, max_age, lookup_out, callVars>>

\* ft8_decoder_free on a live session
Free(s) ==
    /\ pc = "idle"
    /\ sessions[s].live
    /\ sessions' = [sessions EXCEPT ![s] = NoSession]
    /\ UNCHANGED <<cacheVars, pc, max_age, lookup_out, callVars, owner>>

\* ft8_decoder_reset: monitor_reset empties the waterfall
Reset(s) ==
    /\ pc = "idle"
    /\ sessions[s].live
    /\ sessions' = [sessions EXCEPT ![s].num_blocks = 0]
    /\ UNCHANGED <<cacheVars, pc, max_age, lookup_out, callVars, owner>>

\* ft8_decoder_process: monitor_process adds a block while the waterfall has room
Process(s) ==
    /\ pc = "idle"
    /\ sessions[s].live
    /\ sessions' = [sessions EXCEPT ![s].num_blocks =
                       IF @ < MaxBlocks THEN @ + 1 ELSE @]
    /\ UNCHANGED <<cacheVars, pc, max_age, lookup_out, callVars, owner>>

\* ft8_decoder_is_ready
is_ready(s) == sessions[s].live /\ sessions[s].num_blocks >= MaxBlocks

\* a variant of DecodeRejected that runs the end-of-cycle cleanup before it
\* returns
DecodeRejected_aging(s, o, mr) ==
    /\ pc = "idle"
    /\ s = "NULL" \/ o = "NULL" \/ mr <= 0
    /\ s # "NULL" => sessions[s].live
    /\ callsign_hashtable' = hashtable_cleanup(callsign_hashtable, kCleanupMaxAge)
    /\ callsign_hashtable_size' =
           callsign_hashtable_size
               - Cardinality(Evicted(callsign_hashtable, kCleanupMaxAge))
    /\ idle' = BumpCount(idle, callsign_hashtable')
    /\ ret' = 0
    /\ pc' = "returned"
    /\ UNCHANGED <<max_age, lookup_out, sessions, dec, max_results,
                   num_candidates, idx, num_decoded, decoded_hashtable, out,
                   verdicts, touched, owner>>

\* ft8_decoder_decode with a null session, a null output buffer or
\* max_results <= 0: the early return
DecodeRejected(s, o, mr) ==
    /\ pc = "idle"
    /\ s = "NULL" \/ o = "NULL" \/ mr <= 0
    /\ s # "NULL" => sessions[s].live
    /\ ret' = 0
    /\ pc' = "returned"
    /\ UNCHANGED <<cacheVars, max_age, lookup_out, sessions, dec, max_results,
                   num_candidates, idx, num_decoded, decoded_hashtable, out,
                   verdicts, touched, owner>>

\* a variant of loop_condition without the max_results test
loop_condition_uncapped == idx < num_candidates

\* the condition of the candidate loop: idx < num_candidates && num_decoded < max_results
loop_condition == idx < num_candidates /\ num_decoded < max_results

\* ft8_decoder_decode up to the candidate loop: ftx_find_candidates returns
\* nc candidates and the dedup table is emptied
DecodeBegin(s, mr, nc) ==
    /\ pc = "idle"
    /\ sessions[s].live
    /\ mr > 0
    /\ dec' = s
    /\ max_results' = mr
    /\ num_candidates' = nc
    /\ idx' = 0
    /\ num_decoded' = 0
    /\ decoded_hashtable' = <<>>
    /\ out' = <<>>
    /\ verdicts' = <<>>
    /\ touched' = {}
    /\ pc' = "decode"
    /\ UNCHANGED <<cacheVars, max_age, lookup_out, sessions, ret, owner>>

\* one iteration of the candidate loop, c being what ftx_decode_candidate
\* and ftx_message_decode make of candidate_list[idx]
DecodeCandidate(c) ==
    \E message \in {[hash |-> c.hash, payload |-> c.payload]} :
    \E idx_hash \in {dedup_find(decoded_hashtable, message)} :
    \E u \in {unpack_calls(c.calls,
                 [t |-> callsign_hashtable, size |-> callsign_hashtable_size,
                  kind |-> "return", text |-> c.text, lookup |-> lookup_out,
                  touched |-> {}])} :
    /\ pc = "decode"
    /\ loop_condition
    /\ IF ~c.ok
       THEN \* ftx_decode_candidate failed: continue
            /\ idx' = idx + 1
            /\ verdicts' = Append(verdicts, Verdict(c, "undecoded", -1))
            /\ UNCHANGED <<cacheVars, pc, lookup_out, num_decoded, decoded_hashtable,
                           out, touched, owner>>
       ELSE IF idx_hash = -1
       THEN \* the do/while finds neither a free slot nor a duplicate
            /\ pc' = "ft8_decoder_decode"
            /\ UNCHANGED <<cacheVars, lookup_out, idx, num_decoded, decoded_hashtable,
                           out, verdicts, touched, owner>>
       ELSE IF ~dedup_empty(decoded_hashtable, idx_hash)
       THEN \* found_duplicate: continue
            /\ idx' = idx + 1
            /\ verdicts' = Append(verdicts, Verdict(c, "duplicate", idx_hash))
            /\ UNCHANGED <<cacheVars, pc, lookup_out, num_decoded, decoded_hashtable,
                           out, touched, owner>>
       ELSE \* found_empty_slot: reserve it, unpack, append the result
            /\ decoded_hashtable' = (idx_hash :> message) @@ decoded_hashtable
            /\ callsign_hashtable' = u.t
            /\ callsign_hashtable_size' = u.size
            /\ lookup_out' = u.lookup
            /\ touched' = touched \cup u.touched
            /\ idle' = ResetCount(idle, u.touched)
            /\ owner' = [i \in (DOMAIN owner) \cup u.touched |->
                            IF i \in u.touched THEN dec ELSE owner[i]]
            /\ IF u.kind # "return"
               THEN \* a callback of the unpack step cannot leave its loop
                    /\ pc' = u.kind
                    /\ UNCHANGED <<idx, num_decoded, out, verdicts>>
               ELSE /\ out' = (num_decoded :> decode_result(c, u.text)) @@ out
                    /\ num_decoded' = num_decoded + 1
                    /\ idx' = idx + 1
                    /\ verdicts' = Append(verdicts, Verdict(c, "new", idx_hash))
                    /\ pc' = pc
    /\ UNCHANGED <<max_age, sessions, dec, max_results, num_candidates, ret>>

\* a variant of DecodeEnd that skips the cleanup when the call has no result
DecodeEnd_skip_when_empty ==
    /\ pc = "decode"
    /\ ~loop_condition
    /\ callsign_hashtable' =
           IF num_decoded = 0 THEN callsign_hashtable
           ELSE hashtable_cleanup(callsign_hashtable, kCleanupMaxAge)
    /\ callsign_hashtable_size' =
           IF num_decoded = 0 THEN callsign_hashtable_size
           ELSE callsign_hashtable_size
                    - Cardinality(Evicted(callsign_hashtable, kCleanupMaxAge))
    /\ idle' = IF num_decoded = 0 THEN idle ELSE BumpCount(idle, callsign_hashtable')
    /\ owner' = [i \in {j \in DOMAIN owner : Occupied(At(callsign_hashtable', j))}
                    |-> owner[i]]
    /\ ret' = num_decoded
    /\ pc' = "returned"
    /\ UNCHANGED <<max_age, lookup_out, sessions, dec, max_results, num_candidates,
                   idx, num_decoded, decoded_hashtable, out, verdicts, touched>>

\* the end of ft8_decoder_decode: the loop is over, hashtable_cleanup(10),
\* return num_decoded
DecodeEnd ==
    /\ pc = "decode"
    /\ ~loop_condition
    /\ callsign_hashtable' = hashtable_cleanup(callsign_hashtable, kCleanupMaxAge)
    /\ callsign_hashtable_size' =
           callsign_hashtable_size
               - Cardinality(Evicted(callsign_hashtable, kCleanupMaxAge))
    /\ idle' = BumpCount(idle, callsign_hashtable')
    /\ owner' = [i \in {j \in DOMAIN owner : Occupied(At(callsign_hashtable', j))}
                    |-> owner[i]]
    /\ ret' = num_decoded
    /\ pc' = "returned"
    /\ UNCHANGED <<max_age, lookup_out, sessions, dec, max_results, num_candidates,
                   idx, num_decoded, decoded_hashtable, out, verdicts, touched>>

\* the caller has taken the results: the frame of the call is gone
DecodeReturn ==
    /\ pc = "returned"
    /\ pc' = "idle"
    /\ dec' = "NULL"
    /\ max_results' = 0
    /\ num_candidates' = 0
    /\ idx' = 0
    /\ num_decoded' = 0
    /\ decoded_hashtable' = <<>>
    /\ out' = <<>>
    /\ ret' = -1
    /\ verdicts' = <<>>
    /\ touched' = {}
    /\ UNCHANGED <<cacheVars, max_age, lookup_out, sessions, owner>>

(***************************************************************************)
(* SpecDedup: one session, decode calls over candidates that decode to     *)
(* equal messages, to messages of equal hash, and to messages whose hashes *)
(* share a dedup slot                                                      *)
(***************************************************************************)
Save(callsign, hash) ==
    [op |-> "save", callsign |-> callsign, hash |-> hash, hash_type |-> ""]

Lookup(hash_type, hash) ==
    [op |-> "lookup", callsign |-> "", hash |-> hash, hash_type |-> hash_type]

Undecoded ==
    [ok |-> FALSE, hash |-> 0, payload |-> 0, rc |-> 0, score |-> 10,
     text |-> "", calls |-> <<>>]

\* 7 and 207 share the dedup slot 7; payloads 1 and 2 share the hash 7;
\* payload 2 does not unpack (FTX_MESSAGE_RC_ERROR_SUFFIX = 3)
DedupCandidates ==
    { Undecoded,
      [ok |-> TRUE, hash |-> 7, payload |-> 1, rc |-> 0, score |-> 20,
       text |-> "CQ K1ABC FN42", calls |-> <<Save("K1ABC", 5)>>],
      [ok |-> TRUE, hash |-> 7, payload |-> 2, rc |-> 3, score |-> 12,
       text |-> "", calls |-> <<>>],
      [ok |-> TRUE, hash |-> 207, payload |-> 3, rc |-> 0, score |-> 15,
       text |-> "W2XYZ", calls |-> <<Lookup("FTX_CALLSIGN_HASH_22", 5)>>] }

InitDedup ==
    /\ callsign_hashtable = ZeroTable
    /\ callsign_hashtable_size = 0
    /\ pc = "idle"
    /\ max_age = kCleanupMaxAge
    /\ idle = <<>>
    /\ lookup_out = NoLookup
    /\ sessions = [s \in Sessions |->
                     IF s = "A" THEN [live |-> TRUE, num_blocks |-> 0] ELSE NoSession]
    /\ dec = "NULL"
    /\ max_results = 0
    /\ num_candidates = 0
    /\ idx = 0
    /\ num_decoded = 0
    /\ decoded_hashtable = <<>>
    /\ out = <<>>
    /\ ret = -1
    /\ verdicts = <<>>
    /\ touched = {}
    /\ owner = <<>>

NextDedup ==
    \/ \E mr \in 1 .. MaxResults, nc \in 0 .. MaxCandidates : DecodeBegin("A", mr, nc)
    \/ \E c \in DedupCandidates : DecodeCandidate(c)
    \/ DecodeEnd
    \/ DecodeReturn

SpecDedup == InitDedup /\ [][NextDedup]_vars

(***************************************************************************)
(* SpecBusy: one session on a band so busy that the candidate search finds *)
(* more than it may return; every candidate decodes to a message of its    *)
(* own, and all messages start their probe at the same dedup slot          *)
(***************************************************************************)
\* ftx_find_candidates(wf, max_candidates, ...) of the decode library: the
\* number of candidates it returns when it finds `found`
ftx_find_candidates(found, max_candidates) ==
    IF found > max_candidates THEN max_candidates ELSE found

\* a variant of candidates_found for a search that is allowed 250 candidates
candidates_found_250(found) == ftx_find_candidates(found, 250)

\* num_candidates = ftx_find_candidates(wf, kMaxCandidates, candidate_list, kMinScore)
candidates_found(found) == ftx_find_candidates(found, kMaxCandidates)

\* how many candidates the waterfall holds
BusyFound == {0, 200, 250}

\* the max_results values of the calls
BusyResults == {MaxResults, 200, 250}

\* the i-th candidate: its message has the payload i and a hash of its own,
\* all hashes being 7 modulo 200
BusyCandidate(i) ==
    [ok |-> TRUE, hash |-> 7 + (200 * i), payload |-> i, rc |-> 0, score |-> 10,
     text |-> "CQ", calls |-> <<>>]

NextBusy ==
    \/ \E mr \in BusyResults, found \in BusyFound :
           DecodeBegin("A", mr, candidates_found(found))
    \/ DecodeCandidate(BusyCandidate(idx))
    \/ DecodeEnd
    \/ DecodeReturn

SpecBusy == InitDedup /\ [][NextBusy]_vars

(***************************************************************************)
(* SpecSession: two sessions that are created, fed, reset, decoded and     *)
(* freed in any order, one call at a time                                  *)
(***************************************************************************)
\* What the two sessions hear.  A hears a message that carries K1ABC in
\* full; B, on another band, hears one that names a station by the 22-bit
\* hash 5 and carries W2XYZ in full (9000 = 35 * 256 + 40).
SessionCandidates(s) ==
    IF s = "A"
    THEN { [ok |-> TRUE, hash |-> 7, payload |-> 1, rc |-> 0, score |-> 20,
            text |-> "CQ K1ABC FN42", calls |-> <<Save("K1ABC", 5)>>] }
    ELSE { [ok |-> TRUE, hash |-> 8, payload |-> 4, rc |-> 0, score |-> 16,
            text |-> "W2XYZ RR73",
            calls |-> <<Lookup("FTX_CALLSIGN_HASH_22", 5), Save("W2XYZ", 9000)>>] }

InitSession ==
    /\ callsign_hashtable = ZeroTable
    /\ callsign_hashtable_size = 0
    /\ pc = "idle"
    /\ max_age = kCleanupMaxAge
    /\ idle = <<>>
    /\ lookup_out = NoLookup
    /\ NoDecoder

NextSession ==
    \/ \E s \in Sessions : Create(s)
    \/ \E s \in Sessions : Free(s)
    \/ \E s \in Sessions : Reset(s)
    \/ \E s \in Sessions : Process(s)
    \/ \E s \in Sessions \cup {"NULL"}, o \in {"NULL", "out"}, mr \in {0, 1} :
           DecodeRejected(s, o, mr)
    \/ \E s \in Sessions, nc \in 0 .. MaxSessionCandidates : DecodeBegin(s, 1, nc)
    \/ \E c \in SessionCandidates(dec) : DecodeCandidate(c)
    \/ DecodeEnd
    \/ DecodeReturn

SpecSession == InitSession /\ [][NextSession]_vars

(***************************************************************************)
(* Claims about the callsign table, checked under Spec                     *)
(***************************************************************************)
OccupiedSlots == {i \in Slots : Occupied(At(callsign_hashtable, i))}

\* the value a lookup of type hash_type is given for the 22-bit hash h:
\* (h >> shift) & mask
Shortened(hash_type, h) == (h \div ShiftDiv(hash_type)) % MaskMod(hash_type)

\* C1 (cache round-trip): every entry that a save placed and that has not been
\* evicted is returned by lookup(full, H) for its own hash H, whatever saves
\* and age_and_evict calls came between.
C1_RoundTrip ==
    pc = "idle" =>
        \A i \in OccupiedSlots :
            LET r == hashtable_lookup(callsign_hashtable, "FTX_CALLSIGN_HASH_22",
                                      Ident(callsign_hashtable[i].hash))
            IN  r.found /\ r.callsign = callsign_hashtable[i].callsign

\* C2 (graduated lookup consistency): when C is the only entry of the table,
\* lookup(hash_type, (H >> shift) & mask) returns C for each of the three
\* hash types.
C2_GraduatedLookup ==
    pc = "idle" =>
        \A i \in OccupiedSlots :
            OccupiedSlots = {i} =>
                \A hash_type \in HashTypes :
                    LET r == hashtable_lookup(callsign_hashtable, hash_type,
                                 Shortened(hash_type, Ident(callsign_hashtable[i].hash)))
                    IN  r.found /\ r.callsign = callsign_hashtable[i].callsign

\* C3 (exhaustion on save): a save into a table whose 256 slots are occupied
\* by other entries returns, and leaves every slot and the live count as
\* they were.
C3_SaveOnFullTableReturns ==
    [][FillOverflow =>
          /\ pc' = "idle"
          /\ callsign_hashtable' = callsign_hashtable
          /\ callsign_hashtable_size' = callsign_hashtable_size]_vars

\* C5 as stated (eviction deadline): an entry that went through max_age
\* age_and_evict(max_age) calls since it was last saved is absent.
C5_AbsentAfterMaxAgeCalls ==
    \A i \in OccupiedSlots : Count(idle, i) < max_age

\* C5 as amended: an entry saved with age 0 and not re-saved is still present,
\* with age k, after k <= max_age age_and_evict(max_age) calls, and is absent
\* immediately after call number max_age + 1.
C5_Survives ==
    HashtableCleanup =>
        \A i \in OccupiedSlots :
            Count(idle, i) < max_age =>
                /\ Occupied(At(callsign_hashtable', i))
                /\ Age(At(callsign_hashtable', i).hash) = Count(idle, i) + 1

C5_Deadline ==
    \A i \in OccupiedSlots :
        /\ Count(idle, i) <= max_age
        /\ Age(callsign_hashtable[i].hash) = Count(idle, i)

C5_AbsentAfterMaxAgePlusOneCalls == []C5_Deadline /\ [][C5_Survives]_vars

\* C5 witness: an entry that has been through exactly max_age calls without a
\* re-save and is still in the table, under a threshold of at least 2.
C5_Witness ==
    /\ max_age >= 2
    /\ \E i \in OccupiedSlots :
           Count(idle, i) = max_age /\ Age(callsign_hashtable[i].hash) = max_age

\* C7 (uniqueness): no two occupied slots hold the same (identity hash,
\* callsign text) pair.
C7_Unique ==
    \A i, j \in OccupiedSlots :
        (/\ Ident(callsign_hashtable[i].hash) = Ident(callsign_hashtable[j].hash)
         /\ callsign_hashtable[i].callsign = callsign_hashtable[j].callsign)
        => i = j

\* C8 (live count): callsign_hashtable_size is the number of slots whose
\* callsign is non-empty, and lies in 0 .. 256.
C8_LiveCount ==
    /\ callsign_hashtable_size = Cardinality(OccupiedSlots)
    /\ callsign_hashtable_size \in 0 .. CALLSIGN_HASHTABLE_SIZE

(***************************************************************************)
(* Claims about sessions and decode cycles, checked under SpecSession      *)
(***************************************************************************)
\* a step of an operation called on session s
OpOn(s) ==
    \/ Create(s) \/ Free(s) \/ Reset(s) \/ Process(s)
    \/ \E nc \in 0 .. MaxSessionCandidates : DecodeBegin(s, 1, nc)
    \/ dec = s /\ (DecodeEnd \/ \E c \in SessionCandidates(s) : DecodeCandidate(c))

\* the callsign entries saved during the decodes of sessions other than s
EntriesOfOthers(s) ==
    {i \in DOMAIN owner : owner[i] # s /\ Occupied(At(callsign_hashtable, i))}

\* in this step the unpack of session s resolves a hash to an entry that the
\* decode of another session saved
ResolvesForeign(s) ==
    \E c \in SessionCandidates(s) :
        /\ DecodeCandidate(c)
        /\ c.calls # <<>> /\ c.calls[1].op = "lookup"
        /\ LET r == hashtable_lookup(callsign_hashtable, c.calls[1].hash_type,
                                     c.calls[1].hash)
           IN  r.found /\ r.idx \in EntriesOfOthers(s)

\* C4 (session independence): no operation on a session changes a callsign
\* entry saved during another session's decode, and the lookups of a
\* session's decode do not return such an entry.
C4_SessionIndependence ==
    [][\A s \in Sessions :
          OpOn(s) =>
              /\ \A i \in EntriesOfOthers(s) :
                     At(callsign_hashtable', i) = At(callsign_hashtable, i)
              /\ ~ResolvesForeign(s)]_vars

\* C6 as stated (refresh): when a decode call returns, the entries saved or
\* re-saved during the call have age 0.
C6_AgeZeroAfterCycle ==
    pc = "returned" =>
        \A i \in touched : Age(At(callsign_hashtable, i).hash) = 0

\* C6 as amended: an entry saved or re-saved during a decode call has age 0
\* until the end of the candidate loop and age 1 when the call returns; the
\* end-of-cycle age_and_evict(10) adds 1 to the age of every entry that
\* survives it, re-observed in the cycle or not.
C6_Refreshed ==
    /\ pc = "decode" =>
           \A i \in touched :
               /\ Occupied(At(callsign_hashtable, i))
               /\ Age(callsign_hashtable[i].hash) = 0
    /\ pc = "returned" =>
           \A i \in touched :
               /\ Occupied(At(callsign_hashtable, i))
               /\ Age(callsign_hashtable[i].hash) = 1

C6_AllAged ==
    DecodeEnd =>
        \A i \in OccupiedSlots :
            Age(callsign_hashtable[i].hash) < kCleanupMaxAge =>
                /\ Occupied(At(callsign_hashtable', i))
                /\ Age(callsign_hashtable'[i].hash) = Age(callsign_hashtable[i].hash) + 1
                /\ Ident(callsign_hashtable'[i].hash) = Ident(callsign_hashtable[i].hash)

C6_AgeOneAfterCycle == []C6_Refreshed /\ [][C6_AllAged]_vars

\* C6 witness: a decode call has returned; an entry that was in the table
\* before the call and was saved again during it has age 1, and an entry
\* that was not re-observed is older.
C6_Witness ==
    /\ pc = "returned"
    /\ \E i \in touched, j \in OccupiedSlots \ touched :
           /\ Age(callsign_hashtable[i].hash) = 1
           /\ Age(callsign_hashtable[j].hash) >= 2

(***************************************************************************)
(* Claims about the dedup table, checked under SpecDedup                   *)
(***************************************************************************)
\* the candidates of this call, by position, that decoded
Decoded == {j \in 1 .. Len(verdicts) : verdicts[j].verdict # "undecoded"}

SamePair(j, k) ==
    /\ verdicts[j].hash = verdicts[k].hash
    /\ verdicts[j].payload = verdicts[k].payload

\* candidate j is the first of this call to decode to its (hash, payload)
FirstOfPair(j) == \A k \in Decoded : k < j => ~SamePair(j, k)

NewOnes == {j \in Decoded : verdicts[j].verdict = "new"}

\* C9 (dedup idempotence), the verdicts: within one call a decoded candidate
\* is treated as new exactly when no earlier candidate of the call decoded to
\* the same (identity_hash, payload), and as a duplicate otherwise.
C9_Verdicts ==
    \A j \in Decoded :
        verdicts[j].verdict = (IF FirstOfPair(j) THEN "new" ELSE "duplicate")

\* C9, the effects: a new message takes a dedup slot and gets a result; a
\* duplicate changes neither the dedup table nor the results; a decode call
\* starts with an empty dedup table.
C9_Effects ==
    /\ \A c \in DedupCandidates :
           (DecodeCandidate(c) /\ Len(verdicts') = Len(verdicts) + 1) =>
               LET v == verdicts'[Len(verdicts')] IN
               /\ v.verdict = "duplicate" =>
                      /\ decoded_hashtable' = decoded_hashtable
                      /\ out' = out
                      /\ num_decoded' = num_decoded
               /\ v.verdict = "new" =>
                      /\ v.slot \notin DOMAIN decoded_hashtable
                      /\ DOMAIN decoded_hashtable' = DOMAIN decoded_hashtable \cup {v.slot}
                      /\ num_decoded' = num_decoded + 1
                      /\ DOMAIN out' = DOMAIN out \cup {num_decoded}
    /\ (pc = "idle" /\ pc' = "decode") => decoded_hashtable' = << >>

C9_DedupIdempotence == []C9_Verdicts /\ [][C9_Effects]_vars

\* C9 witness: in this call the message (7, 1) was new and then a duplicate,
\* after it had been new in an earlier call (the first result of this call
\* shows K1ABC resolved, which only that message's unpack saves, before the
\* message came up in this call).
C9_Witness ==
    /\ Len(verdicts) = 3
    /\ verdicts[1].verdict = "new" /\ verdicts[1].hash = 207
    /\ out[0].text = "W2XYZ <K1ABC>"
    /\ verdicts[2].verdict = "new" /\ verdicts[2].hash = 7 /\ verdicts[2].payload = 1
    /\ verdicts[3].verdict = "duplicate" /\ SamePair(2, 3)

\* the slots a probe from the start slot of hash h passes before slot i
Before(h, i) ==
    {(h + k) % kDedupSize : k \in 0 .. (((i - h) % kDedupSize) - 1)}

\* C10 (hash-collision safety): two messages of one call with the same
\* identity_hash and different payloads, each the first with its pair, are
\* both new, are both kept, each in a slot of its own, the later one in the
\* first slot of the probe from (hash mod 200) that was free, and each has a
\* result.
C10_CollisionSafety ==
    \A j, k \in Decoded :
        (/\ j < k
         /\ verdicts[j].hash = verdicts[k].hash
         /\ verdicts[j].payload # verdicts[k].payload
         /\ FirstOfPair(j) /\ FirstOfPair(k))
        => /\ verdicts[j].verdict = "new" /\ verdicts[k].verdict = "new"
           /\ verdicts[j].slot # verdicts[k].slot
           /\ \A n \in {j, k} :
                  /\ verdicts[n].slot \in DOMAIN decoded_hashtable
                  /\ decoded_hashtable[verdicts[n].slot] =
                         [hash |-> verdicts[n].hash, payload |-> verdicts[n].payload]
           /\ Before(verdicts[k].hash, verdicts[k].slot)
                  \subseteq {verdicts[n].slot : n \in {m \in NewOnes : m < k}}
           /\ Cardinality(NewOnes) = num_decoded
           /\ DOMAIN out = 0 .. (num_decoded - 1)

\* C10 witness: the messages (7, 1) and (7, 2) of one call, in slots 7 and 8.
C10_Witness ==
    \E j, k \in NewOnes :
        /\ j < k
        /\ verdicts[j].hash = 7 /\ verdicts[k].hash = 7
        /\ verdicts[j].payload # verdicts[k].payload
        /\ verdicts[j].slot = 7 /\ verdicts[k].slot = 8
        /\ num_decoded >= 2

(***************************************************************************)
(* Claims about the decode loop, checked under SpecDedup                   *)
(***************************************************************************)
\* text contains sub
Contains(text, sub) ==
    \E i \in 1 .. (Len(text) - Len(sub) + 1) :
        SubSeq(text, i, i + Len(sub) - 1) = sub

\* the candidate that decodes to the message recorded in the verdict v
CandidateOf(v) ==
    CHOOSE c \in DedupCandidates :
        c.ok /\ c.hash = v.hash /\ c.payload = v.payload

\* the result r is the one of candidate c: its score, and its text or the
\* error text with its code
ResultIsOf(r, c) ==
    /\ r.snr_db_x10 = c.score * 5
    /\ Len(r.text) < FTX_MAX_MESSAGE_LENGTH
    /\ IF c.rc = 0
       THEN SubSeq(r.text, 1, Len(c.text)) = c.text
       ELSE Contains(r.text, ToString(c.rc))

\* how many candidates before candidate j were new
Rank(j) == Cardinality({n \in NewOnes : n < j})

\* C11 (bounded output), the state part: during and after a decode call the
\* results are out[0 .. n-1], n = num_decoded <= max_results, the returned
\* count is n, result number k is that of the k-th candidate that decoded to
\* a new message, and a call returns either with max_results results or
\* with every candidate processed.
C11_Results ==
    (pc \in {"decode", "returned"} /\ dec # "NULL") =>
        /\ num_decoded \in 0 .. max_results
        /\ DOMAIN out = 0 .. (num_decoded - 1)
        /\ Len(verdicts) = idx /\ idx <= num_candidates
        /\ Cardinality(NewOnes) = num_decoded
        /\ \A j \in NewOnes : ResultIsOf(out[Rank(j)], CandidateOf(verdicts[j]))
        /\ pc = "returned" =>
               /\ ret = num_decoded
               /\ num_decoded = max_results \/ idx = num_candidates

\* C11, the step part: no candidate is processed once max_results results
\* are written, and a result once written is not changed.
C11_Cap ==
    /\ Len(verdicts') > Len(verdicts) => num_decoded < max_results
    /\ (pc = "decode" /\ pc' \in {"decode", "returned"}) =>
           \A k \in DOMAIN out : k \in DOMAIN out' /\ out'[k] = out[k]

C11_BoundedOutput == []C11_Results /\ [][C11_Cap]_vars

\* C11 witness: a call with three candidates and max_results = 2 has
\* returned 2 after two candidates, both new.
C11_Witness ==
    /\ pc = "returned" /\ ret = 2 /\ max_results = 2
    /\ num_candidates = 3 /\ idx = 2
    /\ NewOnes = {1, 2}

\* the message of candidate c is in no slot of the dedup table
NotYetSeen(c) ==
    \A i \in DOMAIN decoded_hashtable :
        ~(decoded_hashtable[i].hash = c.hash /\ decoded_hashtable[i].payload = c.payload)

\* C12 (unpack-failure visibility): an iteration on a candidate that decodes,
\* whose message is not a duplicate and whose unpack returns a code other
\* than OK writes a result with the code in its text, counts it, puts the
\* message into a dedup slot and goes on to the next candidate.
C12_UnpackFailureVisible ==
    [][\A c \in DedupCandidates :
          (DecodeCandidate(c) /\ c.ok /\ c.rc # 0 /\ NotYetSeen(c)) =>
              /\ num_decoded' = num_decoded + 1
              /\ num_decoded \in DOMAIN out'
              /\ Contains(out'[num_decoded].text, "Error")
              /\ Contains(out'[num_decoded].text, ToString(c.rc))
              /\ \E i \in DOMAIN decoded_hashtable' :
                     decoded_hashtable'[i] = [hash |-> c.hash, payload |-> c.payload]
              /\ idx' = idx + 1
              /\ pc' = "decode"]_vars

\* C12 witness: the message (7, 2), whose unpack returns 3, has a result
\* with the error text, and the candidate after it has been processed.
C12_Witness ==
    \E j \in NewOnes :
        /\ verdicts[j].hash = 7 /\ verdicts[j].payload = 2
        /\ out[Rank(j)].text = "Error [3] while unpacking!"
        /\ Len(verdicts) > j
        /\ verdicts[j + 1].verdict = "new"

(***************************************************************************)
(* Claims about the entry and the end of a decode call, checked under      *)
(* SpecSession                                                             *)
(***************************************************************************)
\* C13 (defensive no-op): a decode call with a null session, a null output
\* buffer or max_results <= 0 returns 0 at once and changes nothing: not the
\* output buffer, not a callsign slot (text, hash, age), not the live count,
\* not a session; only calls with all three arguments valid enter the
\* candidate loop.
C13_Rejected ==
    \A s \in Sessions \cup {"NULL"}, o \in {"NULL", "out"}, mr \in {0, 1} :
        ((s = "NULL" \/ o = "NULL" \/ mr <= 0) /\ DecodeRejected(s, o, mr)) =>
            /\ pc' = "returned" /\ ret' = 0
            /\ out' = out
            /\ callsign_hashtable' = callsign_hashtable
            /\ callsign_hashtable_size' = callsign_hashtable_size
            /\ sessions' = sessions

C13_Entered ==
    (pc = "idle" /\ pc' = "decode") =>
        dec' \in Sessions /\ sessions[dec'].live /\ max_results' > 0

C13_DefensiveNoOp == [][C13_Rejected /\ C13_Entered]_vars

\* C13 witness: a rejected call has returned 0 while the callsign table
\* holds an entry that a cleanup would have aged or evicted.
C13_Witness ==
    /\ pc = "returned" /\ dec = "NULL" /\ ret = 0
    /\ \E i \in OccupiedSlots : Age(callsign_hashtable[i].hash) >= 1

(***************************************************************************)
(* Claims about the end of the cycle, checked under SpecDedup              *)
(***************************************************************************)
\* the table t2 is what one age_and_evict(m) makes of the table t1
AgedOnce(t1, t2, m) ==
    \A i \in Slots :
        IF Occupied(At(t1, i))
        THEN IF Age(At(t1, i).hash) >= m
             THEN At(t2, i) = ZeroEntry
             ELSE /\ At(t2, i).callsign = At(t1, i).callsign
                  /\ Age(At(t2, i).hash) = Age(At(t1, i).hash) + 1
                  /\ Ident(At(t2, i).hash) = Ident(At(t1, i).hash)
        ELSE At(t2, i) = At(t1, i)

\* no entry of t1 is older or gone in t2
NotAged(t1, t2) ==
    \A i \in Slots :
        Occupied(At(t1, i)) =>
            /\ At(t2, i).callsign = At(t1, i).callsign
            /\ Age(At(t2, i).hash) <= Age(At(t1, i).hash)

\* C14 (unconditional end-of-cycle aging): a decode call that was given valid
\* arguments leaves its candidate loop only when the loop condition is
\* false, and the step that leaves it runs age_and_evict(10) once, however
\* many candidates there were and whatever became of them; no other step of
\* the call (its entry, an iteration of the loop, its return) ages or evicts
\* an entry.
C14_Steps ==
    /\ (pc = "decode" /\ pc' = "returned") =>
           /\ ~(idx < num_candidates /\ num_decoded < max_results)
           /\ AgedOnce(callsign_hashtable, callsign_hashtable', 10)
           /\ ret' = num_decoded
    /\ ~(pc = "decode" /\ pc' = "returned") =>
           NotAged(callsign_hashtable, callsign_hashtable')
    /\ pc = "returned" => pc' = "idle"

C14_AgingEveryCycle == [][C14_Steps]_vars

\* C14 witness: a call that found no candidate has returned, and the entry
\* saved two calls before has age 2 or more.
C14_Witness ==
    /\ pc = "returned" /\ dec = "A"
    /\ num_candidates = 0 /\ ret = 0
    /\ \E i \in OccupiedSlots :
           Age(callsign_hashtable[i].hash) >= 2 /\ Count(idle, i) >= 2

(***************************************************************************)
(* Claims about single calls on the callsign table                         *)
(***************************************************************************)
\* slot i holds an entry whose shifted stored identity is hash & mask
Matches(i, hash_type, hash) ==
    /\ Occupied(At(callsign_hashtable, i))
    /\ Ident(callsign_hashtable[i].hash) \div ShiftDiv(hash_type) = hash % MaskMod(hash_type)

\* C15 (lookup totality), checked under SpecFull: in every table state, the
\* full table included, a lookup returns; when it returns found, the callsign
\* is that of a slot whose shifted, masked identity equals hash & mask, and
\* when no slot matches it returns not-found with an empty string.
C15_LookupTotal ==
    [][\A hash \in FullLookupHashes :
          HashtableLookup("FTX_CALLSIGN_HASH_22", hash) =>
              /\ pc' = "idle"
              /\ lookup_out'.ret = "true" =>
                     \E i \in Slots :
                         /\ Matches(i, "FTX_CALLSIGN_HASH_22", hash)
                         /\ lookup_out'.callsign = callsign_hashtable[i].callsign
              /\ (\A i \in Slots : ~Matches(i, "FTX_CALLSIGN_HASH_22", hash)) =>
                     lookup_out' = [ret |-> "false", callsign |-> ""]]_vars

\* the tables t1 and t2 are equal in every slot but i
SameBut(t1, t2, i) == \A j \in Slots \ {i} : At(t2, j) = At(t1, j)

\* the first 11 characters of the callsign
First11(callsign) ==
    IF Len(callsign) <= 11 THEN callsign ELSE SubSeq(callsign, 1, 11)

\* the step is a refresh of slot i by save(callsign, hash)
IsRefresh(i, callsign, hash) ==
    /\ Occupied(At(callsign_hashtable, i))
    /\ callsign_hashtable[i].hash % 4194304 = hash
    /\ callsign_hashtable[i].callsign = callsign
    /\ At(callsign_hashtable', i) = [hash |-> hash, callsign |-> callsign]
    /\ SameBut(callsign_hashtable, callsign_hashtable', i)
    /\ callsign_hashtable_size' = callsign_hashtable_size

\* the step is an insert into the empty slot i by save(callsign, hash)
IsInsert(i, callsign, hash) ==
    /\ ~Occupied(At(callsign_hashtable, i))
    /\ At(callsign_hashtable', i) = [hash |-> hash, callsign |-> First11(callsign)]
    /\ SameBut(callsign_hashtable, callsign_hashtable', i)
    /\ callsign_hashtable_size' = callsign_hashtable_size + 1

\* C16 (save-refresh frame), checked under SpecSave: a save that finds its
\* (hash, callsign) pair in an occupied slot sets the age of that slot to 0
\* and changes nothing else, not the identity bits, the text, the live count
\* or another slot; a save that reaches an empty slot adds 1 to the live
\* count and writes only that slot: the first 11 characters of the text, the
\* hash as identity, age 0.  A save whose pair is in no slot is an insert.
C16_SaveFrame ==
    [][\A s \in SaveInputs :
          HashtableAdd(s[1], s[2]) =>
              /\ pc' = "idle"
              /\ \E i \in Slots : IsRefresh(i, s[1], s[2]) \/ IsInsert(i, s[1], s[2])
              /\ (\A i \in Slots : ~(/\ Occupied(At(callsign_hashtable, i))
                                     /\ callsign_hashtable[i].hash % 4194304 = s[2]
                                     /\ callsign_hashtable[i].callsign = s[1]))
                     => \E i \in Slots : IsInsert(i, s[1], s[2])]_vars

\* C16 witness: K1ABC in slot 5 has age 0 while the entry in slot 6, which
\* was inserted behind it and has been aged since, holds the first 11
\* characters of a longer text: K1ABC was saved again after the cleanup,
\* and the live count is still 2.
C16_Witness ==
    /\ pc = "idle"
    /\ At(callsign_hashtable, 5) = [hash |-> 5, callsign |-> "K1ABC"]
    /\ At(callsign_hashtable, 6).callsign = "PJ4/K1ABC/Q"
    /\ Age(At(callsign_hashtable, 6).hash) >= 1
    /\ callsign_hashtable_size = 2

\* C17 (age_and_evict step), checked under Spec: one call age_and_evict(max_age)
\* empties every occupied slot of age >= max_age (empty text, hash word 0)
\* and takes 1 off the live count for each; it adds 1 to the age of every
\* other occupied slot and keeps its text and its low 22 identity bits; it
\* leaves the empty slots as they are.
C17_CleanupStep ==
    [][HashtableCleanup =>
          /\ AgedOnce(callsign_hashtable, callsign_hashtable', max_age)
          /\ callsign_hashtable_size' =
                 callsign_hashtable_size
                     - Cardinality({i \in OccupiedSlots :
                                       Age(callsign_hashtable[i].hash) >= max_age})
          /\ pc' = "idle"]_vars

\* C17 witness: W2XYZ, which was inserted into slot 6 behind K1ABC, is alone
\* in the table with age 1 after one cleanup: the call that aged it evicted
\* K1ABC and took the live count from 2 to 1.
C17_Witness ==
    /\ pc = "idle" /\ max_age = 1
    /\ OccupiedSlots = {6}
    /\ callsign_hashtable[6].callsign = "W2XYZ"
    /\ Age(callsign_hashtable[6].hash) = 1
    /\ Count(idle, 6) = 1
    /\ callsign_hashtable_size = 1

(***************************************************************************)
(* Claims about the dedup table of a call with up to 200 candidates,       *)
(* checked under SpecBusy                                                  *)
(***************************************************************************)
\* C18 (the dedup probe terminates): the candidate search returning at most
\* 200 candidates, the dedup table holds at most idx <= 199 messages when
\* candidate idx is presented to it, so the do/while finds a free slot or a
\* duplicate and the call is never caught in the dedup step, whatever
\* max_results is.
C18_DedupProbeTerminates ==
    /\ pc # "ft8_decoder_decode"
    /\ pc = "decode" =>
           /\ idx <= num_candidates
           /\ Cardinality(DOMAIN decoded_hashtable) <= idx
           /\ idx < num_candidates => Cardinality(DOMAIN decoded_hashtable) <= 199

\* C18 witness: the 200th candidate of a call has found the last free slot
\* behind 199 occupied ones.
C18_Witness ==
    /\ pc = "decode"
    /\ idx = 200 /\ num_decoded = 200
    /\ DOMAIN decoded_hashtable = 0 .. 199
    /\ verdicts[200].verdict = "new" /\ verdicts[200].slot = 6

SavedHash(callsign) == IF callsign = "K1ABC" THEN 5 ELSE 9000

\* C20 (age bound), checked under SpecSession, where every save passes a
\* hash below 2^22 and aging is run only as age_and_evict(10) at the end of
\* decode calls: every occupied callsign slot has an age in 0 .. 10, its
\* hash word is age * 2^24 + identity with the identity below 2^22, and the
\* identity is the hash it was saved with.
C20_AgeBound ==
    \A i \in OccupiedSlots :
        /\ Age(callsign_hashtable[i].hash) \in 0 .. 10
        /\ callsign_hashtable[i].hash \div 16777216 \in 0 .. 10
        /\ callsign_hashtable[i].hash % 16777216 = SavedHash(callsign_hashtable[i].callsign)
        /\ SavedHash(callsign_hashtable[i].callsign) < 4194304

\* C20 witness: an entry has reached age 10 with its identity as saved.
C20_Witness ==
    \E i \in OccupiedSlots :
        /\ callsign_hashtable[i].hash = (10 * 16777216) + 5
        /\ callsign_hashtable[i].callsign = "K1ABC"
        /\ Count(idle, i) = 10

====
